---- MODULE Spec2Model ----
(***************************************************************************)
(* Model of the PC/SC card-UID layer of TrachQuiz (src/pcsc_uid.py):       *)
(* the one-shot readers _read_uid_windows / _read_uid_macos behind         *)
(* read_uid_hex, and the event-driven NFCReader (wait_for_card, read_uid,  *)
(* close).  The smart-card service is the environment: every status code   *)
(* and every returned buffer is chosen nondeterministically.  Each public  *)
(* operation is one action; the service calls it issues are recorded, in   *)
(* order, in the variable calls.                                           *)
(***************************************************************************)
EXTENDS Integers, Sequences, FiniteSets, TLC

(***************************************************************************)
(* Bounds of the model.                                                    *)
(***************************************************************************)
\* Longest data part (the UID bytes) of a response to GET_UID; the code's
\* receive buffer holds 258 bytes.
MaxDataLen == 1

(***************************************************************************)
(* Python integers.  A status code is a Python int that may be the         *)
(* unsigned 32-bit value (0x8010000A) or its signed two's-complement       *)
(* equivalent (0x8010000A - 2^32).  It is kept as hi * 2^16 + lo with      *)
(* lo in 0..65535, hi any integer, so that both forms are distinct values  *)
(* and "& 0xFFFFFFFF" is computed, not assumed.                            *)
(***************************************************************************)
Word(hi, lo) == <<hi, lo>>

\* The same 32-bit pattern read as a signed int (what a c_int restype gives).
Signed(w) == IF w[1] >= 32768 THEN Word(w[1] - 65536, w[2]) ELSE w

\* rv & 0xFFFFFFFF
Mask32(w) == Word(w[1] % 65536, w[2])

SCARD_S_SUCCESS == Word(0, 0)
SCARD_E_NO_SMARTCARD == Word(32784, 12)
SCARD_W_REMOVED_CARD == Word(32784, 105)
SCARD_E_TIMEOUT == Word(32784, 10)
\* A status the code names nowhere (SCARD_E_UNKNOWN_READER, 0x80100009).
OtherStatus == Word(32784, 9)

(***************************************************************************)
(* Event-state bits of SCARD_READERSTATE.                                  *)
(***************************************************************************)
SCARD_STATE_UNAWARE == 0
SCARD_STATE_CHANGED == 2
SCARD_STATE_UNAVAILABLE == 8
SCARD_STATE_EMPTY == 16
SCARD_STATE_PRESENT == 32
SCARD_STATE_INUSE == 256

RECURSIVE BitAnd(_, _)
\* Python's & on non-negative ints.
BitAnd(a, b) ==
    IF a = 0 \/ b = 0 THEN 0
    ELSE (a % 2) * (b % 2) + 2 * BitAnd(a \div 2, b \div 2)

(***************************************************************************)
(* Bytes, slices and _hex.                                                 *)
(***************************************************************************)
\* GET_UID = bytes.fromhex("FF CA 00 00 00")
GET_UID == <<255, 202, 0, 0, 0>>

HexLower == <<"0", "1", "2", "3", "4", "5", "6", "7",
              "8", "9", "a", "b", "c", "d", "e", "f">>

\* str.upper() on one character of a hex string.
Upper(c) ==
    CASE c = "a" -> "A" [] c = "b" -> "B" [] c = "c" -> "C"
      [] c = "d" -> "D" [] c = "e" -> "E" [] c = "f" -> "F"
      [] OTHER -> c

RECURSIVE BytesHex(_)
\* bytes.hex(): two lowercase digits per byte.
BytesHex(b) ==
    IF b = <<>> THEN <<>>
    ELSE <<HexLower[(Head(b) \div 16) + 1], HexLower[(Head(b) % 16) + 1]>>
         \o BytesHex(Tail(b))

\* Faulty variant of Hex: the digits are left in lowercase.
HexNotUpper(b) == BytesHex(b)

\* _hex(b) = b.hex().upper()
Hex(b) == [i \in 1..Len(BytesHex(b)) |-> Upper(BytesHex(b)[i])]

\* resp[:-2]
DropLast2(resp) == IF Len(resp) < 2 THEN <<>> ELSE SubSeq(resp, 1, Len(resp) - 2)
\* resp[-2:]
Last2(resp) == IF Len(resp) < 2 THEN resp ELSE SubSeq(resp, Len(resp) - 1, Len(resp))

(***************************************************************************)
(* Values of the environment.                                              *)
(***************************************************************************)
NULL == "NULL"
None == "None"

\* Context handles the service hands out, and the card handle of a connection.
CtxHandles == {"ctx1", "ctx2"}
CardHandle == "card1"

\* What SCardListReaders can enumerate (multi-string, empty names dropped).
ReaderLists == {<<>>, <<"R1">>, <<"R2", "R1">>}

BothForms(w) == {w, Signed(w)}
\* Failure statuses per call site, each in its unsigned and its signed form.
GenericFail == BothForms(OtherStatus)
ConnectFail == BothForms(SCARD_E_NO_SMARTCARD) \cup BothForms(SCARD_W_REMOVED_CARD)
               \cup BothForms(OtherStatus)
StatusChangeFail == BothForms(SCARD_E_TIMEOUT) \cup BothForms(OtherStatus)

\* Event-state masks the service may return: every combination of the three
\* bits the code tests, alone and together with bits it does not test.
DecidingMasks == {p + e + u : p \in {0, SCARD_STATE_PRESENT},
                              e \in {0, SCARD_STATE_EMPTY},
                              u \in {0, SCARD_STATE_UNAVAILABLE}}
EventStates == DecidingMasks
               \cup {SCARD_STATE_CHANGED,
                     SCARD_STATE_CHANGED + SCARD_STATE_PRESENT + SCARD_STATE_INUSE}

RECURSIVE SeqsUpTo(_, _)
SeqsUpTo(S, n) ==
    IF n = 0 THEN {<<>>}
    ELSE LET shorter == SeqsUpTo(S, n - 1)
         IN  shorter \cup {Append(s, x) : s \in {t \in shorter : Len(t) = n - 1}, x \in S}

\* What the card may answer to GET_UID: some data bytes followed by nothing,
\* by one byte, by the status word 90 00, or by another status word
\* (00 90 reversed, 6A 82 an error).  Responses of length 0 and 1 are among
\* them.
DataBytes == {4, 171}
Trailers == {<<>>, <<144>>, <<144, 0>>, <<0, 144>>, <<106, 130>>}
Responses == {d \o t : d \in SeqsUpTo(DataBytes, MaxDataLen), t \in Trailers}

(***************************************************************************)
(* Service calls and operation outcomes.                                   *)
(***************************************************************************)
\* One call to the service: the function, the handle passed, the other
\* argument, the status returned and the value written back.
Call(fn, h, arg, rv, out) == [fn |-> fn, h |-> h, arg |-> arg, rv |-> rv, out |-> out]

Return(kind, val) == [kind |-> kind, val |-> val]
ReturnNone == Return("None", None)
ReturnStr(s) == Return("str", s)
\* A str of hexadecimal digits, held as the sequence of its digits.
ReturnHex(digits) == Return("hex", digits)
Raise(exc, msg) == Return("raise", [exc |-> exc, msg |-> msg])

(***************************************************************************)
(* State.                                                                  *)
(***************************************************************************)
VARIABLES
    platform,        \* sys.platform of the process: "win32", "darwin" or another
    phase,           \* NFCReader object: "unborn", "live", or "failed" (__init__ raised)
    hcontext,        \* self.hcontext: a context handle, NULL before, None after close()
    reader_name,     \* self.reader_name: None or a reader name
    dwCurrentState,  \* self.reader_states[0].dwCurrentState
    svcContexts,     \* service side: contexts established and not released
    svcCards,        \* service side: card connections open
    op,              \* the operation that ran last
    calls,           \* the service calls it issued, in order
    ret,             \* what it returned or raised
    lastPoll,        \* history: outcome of the most recent wait_for_card
    lastEvent,       \* history: <<event-state>> of the most recent successful
                     \* wait since the reader was discovered, <<>> if none
    closes,          \* history: number of close() calls so far; 2 stands
                     \* for two or more
    wpc,             \* nfc_worker: where the worker thread is
    last_uid,        \* nfc_worker: local last_uid
    scheduled,       \* nfc_worker: the message the last step handed to broadcast
    shown,           \* history: the UID handed to broadcast and not yet
                     \* followed by "empty" or by a read of another UID
    active_connections,  \* ConnectionManager.active_connections
    bcast            \* ConnectionManager.broadcast: the running call

workerVars == <<wpc, last_uid, scheduled, shown>>
managerVars == <<active_connections, bcast>>
serverVars == <<workerVars, managerVars>>

vars == <<platform, phase, hcontext, reader_name, dwCurrentState, svcContexts,
          svcCards, op, calls, ret, lastPoll, lastEvent, closes, serverVars>>

nfcVars == <<phase, hcontext, reader_name, dwCurrentState, lastPoll, lastEvent, closes>>

\* if x: for a handle or a reader name (None, NULL and "" are falsy).
Truthy(x) == x # None /\ x # NULL /\ x # ""

\* The service's bookkeeping after a sequence of calls.
RECURSIVE ApplyContexts(_, _)
ApplyContexts(S, cs) ==
    IF cs = <<>> THEN S
    ELSE LET c == Head(cs)
         IN  ApplyContexts(
                 IF c.fn = "SCardEstablishContext" /\ c.rv = SCARD_S_SUCCESS
                     THEN S \cup {c.out}
                 ELSE IF c.fn = "SCardReleaseContext" THEN S \ {c.h}
                 ELSE S,
                 Tail(cs))

RECURSIVE ApplyCards(_, _)
ApplyCards(S, cs) ==
    IF cs = <<>> THEN S
    ELSE LET c == Head(cs)
         IN  ApplyCards(
                 IF c.fn = "SCardConnect" /\ c.rv = SCARD_S_SUCCESS
                     THEN S \cup {c.out}
                 ELSE IF c.fn = "SCardDisconnect" THEN S \ {c.h}
                 ELSE S,
                 Tail(cs))

\* A handle the service has not handed out yet.
FreshContext == CHOOSE h \in CtxHandles : h \notin svcContexts

(***************************************************************************)
(* NFCReader.__init__                                                      *)
(***************************************************************************)
\* rv: status of SCardEstablishContext; h: the handle it writes on success.
NFCReaderInitRun(plat, rv, h) ==
    IF plat # "win32"
        THEN [calls |-> <<>>, ret |-> Raise("RuntimeError", "Windows only"),
              hcontext |-> NULL]
    ELSE LET est == Call("SCardEstablishContext", NULL, 0, rv,
                         IF rv = SCARD_S_SUCCESS THEN h ELSE NULL)
         IN  IF rv # SCARD_S_SUCCESS
                 THEN [calls |-> <<est>>,
                       ret |-> Raise("RuntimeError", "SCardEstablishContext failed"),
                       hcontext |-> NULL]
             ELSE [calls |-> <<est>>, ret |-> ReturnNone, hcontext |-> h]

NFCReaderInitCall ==
    /\ phase = "unborn"
    /\ \E rv \in {SCARD_S_SUCCESS} \cup GenericFail :
       \E r \in {NFCReaderInitRun(platform, rv, FreshContext)} :
             /\ phase' = IF r.ret.kind = "raise" THEN "failed" ELSE "live"
             /\ hcontext' = r.hcontext
             /\ reader_name' = None
             /\ dwCurrentState' = 0
             /\ svcContexts' = ApplyContexts(svcContexts, r.calls)
             /\ svcCards' = ApplyCards(svcCards, r.calls)
             /\ op' = "__init__"
             /\ calls' = r.calls
             /\ ret' = r.ret
             /\ UNCHANGED <<platform, lastPoll, lastEvent, closes>>

\* NFCReader() called on its own.
NFCReaderInit == NFCReaderInitCall /\ UNCHANGED serverVars

(***************************************************************************)
(* NFCReader.close                                                         *)
(***************************************************************************)
\* Faulty variant of CloseRun: self.hcontext is not cleared.
CloseRunKeepsHandle(hctx) ==
    IF Truthy(hctx)
        THEN [calls |-> <<Call("SCardReleaseContext", hctx, NULL, SCARD_S_SUCCESS, NULL)>>,
              hcontext |-> hctx]
    ELSE [calls |-> <<>>, hcontext |-> hctx]

CloseRun(hctx) ==
    IF Truthy(hctx)
        THEN [calls |-> <<Call("SCardReleaseContext", hctx, NULL, SCARD_S_SUCCESS, NULL)>>,
              hcontext |-> None]
    ELSE [calls |-> <<>>, hcontext |-> hctx]

CloseCall ==
    /\ phase = "live"
    /\ \E r \in {CloseRun(hcontext)} :
           /\ hcontext' = r.hcontext
           /\ svcContexts' = ApplyContexts(svcContexts, r.calls)
           /\ svcCards' = ApplyCards(svcCards, r.calls)
           /\ op' = "close"
           /\ calls' = r.calls
           /\ ret' = ReturnNone
    /\ closes' = IF closes = 0 THEN 1 ELSE 2
    /\ UNCHANGED <<platform, phase, reader_name, dwCurrentState, lastPoll, lastEvent>>

\* reader.close() called on its own.
Close == CloseCall /\ UNCHANGED serverVars

(***************************************************************************)
(* NFCReader.wait_for_card                                                 *)
(***************************************************************************)
\* What the service answers during one wait_for_card: the statuses of the
\* two SCardListReaders calls, the list enumerated, the status of
\* SCardGetStatusChange and the event-state it writes on success.
WaitAnswer(list1, list2, readers, gsc, event) ==
    [list1 |-> list1, list2 |-> list2, readers |-> readers, gsc |-> gsc, event |-> event]

\* The answers to the status-change wait.  A call on a context the service
\* does not hold cannot succeed.
StatusChangeAnswers(ctxValid) ==
    {<<rv, 0>> : rv \in StatusChangeFail}
    \cup (IF ctxValid THEN {<<SCARD_S_SUCCESS, e>> : e \in EventStates} ELSE {})

\* The answers to the enumeration (a failing size call, a failing fill call,
\* or a list), each followed by the answers to the wait where one is issued.
WaitAnswers(ctxValid, readerKnown) ==
    IF readerKnown
        THEN {WaitAnswer(SCARD_S_SUCCESS, SCARD_S_SUCCESS, <<>>, g[1], g[2]) :
                g \in StatusChangeAnswers(ctxValid)}
    ELSE {WaitAnswer(rv, SCARD_S_SUCCESS, <<>>, SCARD_S_SUCCESS, 0) : rv \in GenericFail}
         \cup (IF ctxValid
                 THEN {WaitAnswer(SCARD_S_SUCCESS, rv, <<>>, SCARD_S_SUCCESS, 0) :
                         rv \in GenericFail}
                      \cup {WaitAnswer(SCARD_S_SUCCESS, SCARD_S_SUCCESS, <<>>,
                                       SCARD_S_SUCCESS, 0)}
                      \cup {WaitAnswer(SCARD_S_SUCCESS, SCARD_S_SUCCESS, l, g[1], g[2]) :
                              l \in ReaderLists \ {<<>>},
                              g \in StatusChangeAnswers(ctxValid)}
               ELSE {})

\* _get_readers
GetReaders(hctx, a) ==
    LET size == Call("SCardListReaders", hctx, "size", a.list1, <<>>)
        fill == Call("SCardListReaders", hctx, "fill", a.list2,
                     IF a.list2 = SCARD_S_SUCCESS THEN a.readers ELSE <<>>)
    IN  IF a.list1 # SCARD_S_SUCCESS THEN [calls |-> <<size>>, readers |-> <<>>]
        ELSE IF a.list2 # SCARD_S_SUCCESS THEN [calls |-> <<size, fill>>, readers |-> <<>>]
        ELSE [calls |-> <<size, fill>>, readers |-> fill.out]

\* Faulty variant of FindReaderWith: with no reader enumerated the method
\* goes on to the status-change wait.
FindReaderWithPollsAnyway(self, g) ==
    IF g.readers = <<>>
        THEN [go |-> TRUE, found |-> FALSE, calls |-> g.calls,
              reader_name |-> self.reader_name,
              dwCurrentState |-> self.dwCurrentState]
    ELSE [go |-> TRUE, found |-> TRUE, calls |-> g.calls,
          reader_name |-> g.readers[1],
          dwCurrentState |-> SCARD_STATE_UNAWARE]

\* wait_for_card, step 1: find the reader if not known.  go is FALSE when
\* the method returns None here.  reader_states[0].szReader is written
\* together with reader_name and read only by the wait that follows, so the
\* model passes reader_name for it.
FindReaderWith(self, g) ==
    IF g.readers = <<>>
        THEN [go |-> FALSE, found |-> FALSE, calls |-> g.calls,
              reader_name |-> self.reader_name,
              dwCurrentState |-> self.dwCurrentState]
    ELSE [go |-> TRUE, found |-> TRUE, calls |-> g.calls,
          reader_name |-> g.readers[1],
          dwCurrentState |-> SCARD_STATE_UNAWARE]

FindReader(self, a) ==
    IF Truthy(self.reader_name)
        THEN [go |-> TRUE, found |-> FALSE, calls |-> <<>>,
              reader_name |-> self.reader_name,
              dwCurrentState |-> self.dwCurrentState]
    ELSE FindReaderWith(self, GetReaders(self.hcontext, a))

\* Faulty variant of Decide: EMPTY is tested before PRESENT.
DecideEmptyFirst(event_state) ==
    IF BitAnd(event_state, SCARD_STATE_EMPTY) # 0 THEN "empty"
    ELSE IF BitAnd(event_state, SCARD_STATE_PRESENT) # 0 THEN "present"
    ELSE IF BitAnd(event_state, SCARD_STATE_UNAVAILABLE) # 0 THEN "unavailable"
    ELSE None

\* elif rv == 0x8010000A
IsTimeout(rv) == rv = SCARD_E_TIMEOUT

\* wait_for_card, the decision on a successful wait: the value returned.
Decide(event_state) ==
    IF BitAnd(event_state, SCARD_STATE_PRESENT) # 0 THEN "present"
    ELSE IF BitAnd(event_state, SCARD_STATE_EMPTY) # 0 THEN "empty"
    ELSE IF BitAnd(event_state, SCARD_STATE_UNAVAILABLE) # 0 THEN "unavailable"
    ELSE None

\* Faulty variant of AfterStatusChange: an unexpected error keeps the reader.
AfterStatusChangeKeepsReader(rv, event_state, name, current) ==
    IF rv = SCARD_S_SUCCESS
        THEN [ret |-> Decide(event_state),
              reader_name |-> IF Decide(event_state) = "unavailable" THEN None ELSE name,
              dwCurrentState |-> event_state]
    ELSE [ret |-> None, reader_name |-> name, dwCurrentState |-> current]

\* Faulty variant of AfterStatusChange: the event-state is not fed back.
AfterStatusChangeNoFeedback(rv, event_state, name, current) ==
    IF rv = SCARD_S_SUCCESS
        THEN [ret |-> Decide(event_state),
              reader_name |-> IF Decide(event_state) = "unavailable" THEN None ELSE name,
              dwCurrentState |-> current]
    ELSE IF IsTimeout(rv)
        THEN [ret |-> None, reader_name |-> name, dwCurrentState |-> current]
    ELSE [ret |-> None, reader_name |-> None, dwCurrentState |-> current]

\* wait_for_card after SCardGetStatusChange returned rv: the value returned
\* and the new reader_name and dwCurrentState.  event_state is
\* reader_states[0].dwEventState, which the service wrote if rv is success
\* and which is read in that case only.
AfterStatusChange(rv, event_state, name, current) ==
    IF rv = SCARD_S_SUCCESS
        THEN [ret |-> Decide(event_state),
              reader_name |-> IF Decide(event_state) = "unavailable" THEN None ELSE name,
              dwCurrentState |-> event_state]
    ELSE IF IsTimeout(rv)
        THEN [ret |-> None, reader_name |-> name, dwCurrentState |-> current]
    ELSE [ret |-> None, reader_name |-> None, dwCurrentState |-> current]

\* wait_for_card, step 2, after step 1 gave f: the status-change wait.
WaitWith(self, a, f, b) ==
    IF ~f.go
        THEN [calls |-> f.calls, ret |-> None, found |-> FALSE, polled |-> FALSE,
              rv |-> NULL, reader_name |-> f.reader_name,
              dwCurrentState |-> f.dwCurrentState]
    ELSE [calls |-> Append(f.calls,
                           Call("SCardGetStatusChange", self.hcontext,
                                [szReader |-> f.reader_name,
                                 dwCurrentState |-> f.dwCurrentState],
                                a.gsc, a.event)),
          ret |-> b.ret, found |-> f.found, polled |-> TRUE, rv |-> a.gsc,
          reader_name |-> b.reader_name, dwCurrentState |-> b.dwCurrentState]

WaitAfterFind(self, a, f) ==
    WaitWith(self, a, f, AfterStatusChange(a.gsc, a.event, f.reader_name, f.dwCurrentState))

WaitForCardRun(self, a) == WaitAfterFind(self, a, FindReader(self, a))

Self == [hcontext |-> hcontext, reader_name |-> reader_name,
         dwCurrentState |-> dwCurrentState]

\* History: how the status-change wait of a wait_for_card ended, with the
\* status read as an unsigned 32-bit value.
PollClass(polled, rv) ==
    IF ~polled THEN "nopoll"
    ELSE IF rv = SCARD_S_SUCCESS THEN "ok"
    ELSE IF Mask32(rv) = SCARD_E_TIMEOUT THEN "timeout"
    ELSE "error"

\* History: the wait ended by forgetting the reader ("unavailable", or a
\* status-change error other than timeout).
Forgot(poll) == poll.ret = "unavailable" \/ poll.status = "error"

WaitForCardCall ==
    /\ phase = "live"
    /\ \E a \in WaitAnswers(hcontext \in svcContexts, Truthy(reader_name)) :
       \E r \in {WaitForCardRun(Self, a)} :
             /\ reader_name' = r.reader_name
             /\ dwCurrentState' = r.dwCurrentState
             /\ op' = "wait_for_card"
             /\ calls' = r.calls
             /\ ret' = IF r.ret = None THEN ReturnNone ELSE ReturnStr(r.ret)
             /\ lastPoll' = [ret |-> r.ret, status |-> PollClass(r.polled, r.rv),
                             afterForget |-> Forgot(lastPoll),
                             afterPresent |-> lastPoll.ret = "present"]
             /\ lastEvent' = IF r.polled /\ r.rv = SCARD_S_SUCCESS THEN <<a.event>>
                             ELSE IF r.found THEN <<>>
                             ELSE lastEvent
    /\ UNCHANGED <<platform, phase, hcontext, closes, svcContexts, svcCards>>

\* reader.wait_for_card() called on its own.
WaitForCard == WaitForCardCall /\ UNCHANGED serverVars

(***************************************************************************)
(* NFCReader.read_uid                                                      *)
(***************************************************************************)
\* What the service answers during one connect / transmit exchange.
CardAnswer(connect, transmit, resp) ==
    [connect |-> connect, transmit |-> transmit, resp |-> resp]

CardAnswers(ctxValid) ==
    {CardAnswer(rv, SCARD_S_SUCCESS, <<>>) : rv \in ConnectFail}
    \cup (IF ctxValid
            THEN {CardAnswer(SCARD_S_SUCCESS, rv, <<>>) : rv \in GenericFail}
                 \cup {CardAnswer(SCARD_S_SUCCESS, SCARD_S_SUCCESS, r) : r \in Responses}
          ELSE {})

ConnectCall(hctx, reader, a) ==
    Call("SCardConnect", hctx, reader, a.connect,
         IF a.connect = SCARD_S_SUCCESS THEN CardHandle ELSE NULL)
TransmitCall(hcard, a) ==
    Call("SCardTransmit", hcard, GET_UID, a.transmit,
         IF a.transmit = SCARD_S_SUCCESS THEN a.resp ELSE <<>>)
DisconnectCall(hcard) ==
    Call("SCardDisconnect", hcard, 0, SCARD_S_SUCCESS, NULL)
ReleaseCall(hctx) ==
    Call("SCardReleaseContext", hctx, NULL, SCARD_S_SUCCESS, NULL)

\* Faulty variant of TryFinally: the cleanup is skipped when the body raises.
TryFinallySkipsOnRaise(body, cleanup) ==
    IF body.ret.kind = "raise" THEN body
    ELSE [calls |-> Append(body.calls, cleanup), ret |-> body.ret]

\* try: body  finally: cleanup call.  The cleanup runs on every way out of
\* the body, and the body's return value or exception is kept.
TryFinally(body, cleanup) ==
    [calls |-> Append(body.calls, cleanup), ret |-> body.ret]

\* Faulty variant of ReadUidBody: the one-shot decode, which raises.
ReadUidBodyRaising(hcard, a) ==
    LET tx == TransmitCall(hcard, a)
        resp == tx.out
    IN  IF a.transmit # SCARD_S_SUCCESS
            THEN [calls |-> <<tx>>, ret |-> Raise("RuntimeError", "SCardTransmit failed")]
        ELSE IF Len(resp) < 2
            THEN [calls |-> <<tx>>, ret |-> Raise("RuntimeError", "Short response")]
        ELSE IF Last2(resp) # <<144, 0>>
            THEN [calls |-> <<tx>>, ret |-> Raise("RuntimeError", "GET_UID failed")]
        ELSE [calls |-> <<tx>>, ret |-> ReturnHex(Hex(DropLast2(resp)))]

\* Faulty variant of ReadUidBody: the status word is not examined.
ReadUidBodyAnyStatus(hcard, a) ==
    LET tx == TransmitCall(hcard, a)
        resp == tx.out
    IN  IF a.transmit = SCARD_S_SUCCESS /\ Len(resp) >= 2
            THEN [calls |-> <<tx>>, ret |-> ReturnHex(Hex(DropLast2(resp)))]
        ELSE [calls |-> <<tx>>, ret |-> ReturnNone]

\* read_uid, the body of the try block: transmit and decode.
ReadUidBody(hcard, a) ==
    LET tx == TransmitCall(hcard, a)
        resp == tx.out
    IN  IF a.transmit = SCARD_S_SUCCESS
            /\ Len(resp) >= 2 /\ Last2(resp) = <<144, 0>>
            THEN [calls |-> <<tx>>, ret |-> ReturnHex(Hex(DropLast2(resp)))]
        ELSE [calls |-> <<tx>>, ret |-> ReturnNone]

\* Faulty variant of ReadUidRun: a failing connect raises, as in the one-shot
\* read.
ReadUidRunConnectRaises(self, a) ==
    IF ~Truthy(self.reader_name) THEN [calls |-> <<>>, ret |-> ReturnNone]
    ELSE LET conn == ConnectCall(self.hcontext, self.reader_name, a)
             body == TryFinally(ReadUidBody(conn.out, a), DisconnectCall(conn.out))
         IN  IF a.connect # SCARD_S_SUCCESS
                 THEN [calls |-> <<conn>>, ret |-> Raise("RuntimeError", "SCardConnect failed")]
             ELSE [calls |-> <<conn>> \o body.calls, ret |-> body.ret]

ReadUidRun(self, a) ==
    IF ~Truthy(self.reader_name) THEN [calls |-> <<>>, ret |-> ReturnNone]
    ELSE LET conn == ConnectCall(self.hcontext, self.reader_name, a)
             body == TryFinally(ReadUidBody(conn.out, a), DisconnectCall(conn.out))
         IN  IF a.connect # SCARD_S_SUCCESS
                 THEN [calls |-> <<conn>>, ret |-> ReturnNone]
             ELSE [calls |-> <<conn>> \o body.calls, ret |-> body.ret]

ReadUidCall ==
    /\ phase = "live"
    /\ \E a \in CardAnswers(hcontext \in svcContexts) :
       \E r \in {ReadUidRun(Self, a)} :
             /\ op' = "read_uid"
             /\ calls' = r.calls
             /\ ret' = r.ret
             /\ svcContexts' = ApplyContexts(svcContexts, r.calls)
             /\ svcCards' = ApplyCards(svcCards, r.calls)
    /\ UNCHANGED <<platform, nfcVars>>

\* reader.read_uid() called on its own.
ReadUid == ReadUidCall /\ UNCHANGED serverVars

(***************************************************************************)
(* The one-shot read: read_uid_hex, _read_uid_windows, _read_uid_macos     *)
(***************************************************************************)
\* What the service answers during one one-shot read.
OneShotAnswer(establish, list1, list2, readers, c) ==
    [establish |-> establish, list1 |-> list1, list2 |-> list2, readers |-> readers,
     connect |-> c.connect, transmit |-> c.transmit, resp |-> c.resp]

NoCard == CardAnswer(SCARD_S_SUCCESS, SCARD_S_SUCCESS, <<>>)

OneShotAnswers ==
    {OneShotAnswer(rv, SCARD_S_SUCCESS, SCARD_S_SUCCESS, <<>>, NoCard) : rv \in GenericFail}
    \cup {OneShotAnswer(SCARD_S_SUCCESS, rv, SCARD_S_SUCCESS, <<>>, NoCard) :
            rv \in GenericFail}
    \cup {OneShotAnswer(SCARD_S_SUCCESS, SCARD_S_SUCCESS, rv, <<>>, NoCard) :
            rv \in GenericFail}
    \cup {OneShotAnswer(SCARD_S_SUCCESS, SCARD_S_SUCCESS, SCARD_S_SUCCESS, <<>>, NoCard)}
    \cup {OneShotAnswer(SCARD_S_SUCCESS, SCARD_S_SUCCESS, SCARD_S_SUCCESS, l, c) :
            l \in ReaderLists \ {<<>>}, c \in CardAnswers(TRUE)}

\* _read_uid_windows, the inner try block: transmit and decode.
WindowsTransmit(hcard, a) ==
    LET tx == TransmitCall(hcard, a)
        resp == tx.out
    IN  IF a.transmit # SCARD_S_SUCCESS
            THEN [calls |-> <<tx>>, ret |-> Raise("RuntimeError", "SCardTransmit failed")]
        ELSE IF Len(resp) < 2
            THEN [calls |-> <<tx>>, ret |-> Raise("RuntimeError", "Short response")]
        ELSE IF <<resp[Len(resp) - 1], resp[Len(resp)]>> # <<144, 0>>
            THEN [calls |-> <<tx>>, ret |-> Raise("RuntimeError", "GET_UID failed")]
        ELSE [calls |-> <<tx>>, ret |-> ReturnHex(Hex(DropLast2(resp)))]

\* _read_uid_windows, the exception raised when SCardConnect returned rv # 0.
WindowsConnectFailure(rv) ==
    IF Mask32(rv) \in {SCARD_W_REMOVED_CARD, SCARD_E_NO_SMARTCARD}
        THEN Raise("NoCardDetectedError", "No smart card present or card removed.")
    ELSE Raise("RuntimeError", "SCardConnect failed")

\* Faulty variant of WindowsWithContext: a failing connect is tried again.
WindowsWithContextRetries(hctx, a) ==
    LET size == Call("SCardListReaders", hctx, "size", a.list1, <<>>)
        fill == Call("SCardListReaders", hctx, "fill", a.list2,
                     IF a.list2 = SCARD_S_SUCCESS THEN a.readers ELSE <<>>)
        readers == fill.out
        conn == ConnectCall(hctx, readers[1], a)
        inner == TryFinally(WindowsTransmit(conn.out, a), DisconnectCall(conn.out))
    IN  IF a.list1 # SCARD_S_SUCCESS
            THEN [calls |-> <<size>>,
                  ret |-> Raise("RuntimeError", "SCardListReaders(size) failed")]
        ELSE IF a.list2 # SCARD_S_SUCCESS
            THEN [calls |-> <<size, fill>>,
                  ret |-> Raise("RuntimeError", "SCardListReaders failed")]
        ELSE IF readers = <<>>
            THEN [calls |-> <<size, fill>>,
                  ret |-> Raise("RuntimeError", "No PC/SC readers found")]
        ELSE IF a.connect # SCARD_S_SUCCESS
            THEN [calls |-> <<size, fill, conn, conn>>,
                  ret |-> WindowsConnectFailure(a.connect)]
        ELSE [calls |-> <<size, fill, conn>> \o inner.calls, ret |-> inner.ret]

\* _read_uid_windows, the outer try block: enumerate, connect, exchange.
WindowsWithContext(hctx, a) ==
    LET size == Call("SCardListReaders", hctx, "size", a.list1, <<>>)
        fill == Call("SCardListReaders", hctx, "fill", a.list2,
                     IF a.list2 = SCARD_S_SUCCESS THEN a.readers ELSE <<>>)
        readers == fill.out
        conn == ConnectCall(hctx, readers[1], a)
        inner == TryFinally(WindowsTransmit(conn.out, a), DisconnectCall(conn.out))
    IN  IF a.list1 # SCARD_S_SUCCESS
            THEN [calls |-> <<size>>,
                  ret |-> Raise("RuntimeError", "SCardListReaders(size) failed")]
        ELSE IF a.list2 # SCARD_S_SUCCESS
            THEN [calls |-> <<size, fill>>,
                  ret |-> Raise("RuntimeError", "SCardListReaders failed")]
        ELSE IF readers = <<>>
            THEN [calls |-> <<size, fill>>,
                  ret |-> Raise("RuntimeError", "No PC/SC readers found")]
        ELSE IF a.connect # SCARD_S_SUCCESS
            THEN [calls |-> <<size, fill, conn>>, ret |-> WindowsConnectFailure(a.connect)]
        ELSE [calls |-> <<size, fill, conn>> \o inner.calls, ret |-> inner.ret]

\* Faulty variant of ReadUidWindows: the context is released only when the
\* body returns.
ReadUidWindowsLeaky(a, h) ==
    LET est == Call("SCardEstablishContext", NULL, 0, a.establish,
                    IF a.establish = SCARD_S_SUCCESS THEN h ELSE NULL)
        outer == TryFinallySkipsOnRaise(WindowsWithContext(est.out, a), ReleaseCall(est.out))
    IN  IF a.establish # SCARD_S_SUCCESS
            THEN [calls |-> <<est>>,
                  ret |-> Raise("RuntimeError", "SCardEstablishContext failed")]
        ELSE [calls |-> <<est>> \o outer.calls, ret |-> outer.ret]

\* _read_uid_windows.  h: the handle SCardEstablishContext writes on success.
ReadUidWindows(a, h) ==
    LET est == Call("SCardEstablishContext", NULL, 0, a.establish,
                    IF a.establish = SCARD_S_SUCCESS THEN h ELSE NULL)
        outer == TryFinally(WindowsWithContext(est.out, a), ReleaseCall(est.out))
    IN  IF a.establish # SCARD_S_SUCCESS
            THEN [calls |-> <<est>>,
                  ret |-> Raise("RuntimeError", "SCardEstablishContext failed")]
        ELSE [calls |-> <<est>> \o outer.calls, ret |-> outer.ret]

\* _read_uid_macos, the inner try block: transmit and decode.
MacosTransmit(hcard, a) ==
    LET tx == TransmitCall(hcard, a)
        resp == tx.out
    IN  IF a.transmit # SCARD_S_SUCCESS
            THEN [calls |-> <<tx>>, ret |-> Raise("RuntimeError", "SCardTransmit failed")]
        ELSE IF Len(resp) < 2
            THEN [calls |-> <<tx>>, ret |-> Raise("RuntimeError", "Short response")]
        ELSE IF <<resp[Len(resp) - 1], resp[Len(resp)]>> # <<144, 0>>
            THEN [calls |-> <<tx>>, ret |-> Raise("RuntimeError", "GET_UID failed")]
        ELSE [calls |-> <<tx>>, ret |-> ReturnHex(Hex(DropLast2(resp)))]

\* _read_uid_macos, the exception raised when SCardConnect returned rv # 0.
MacosConnectFailure(rv) == Raise("RuntimeError", "SCardConnect failed")

\* _read_uid_macos, the outer try block: enumerate, connect, exchange.
MacosWithContext(hctx, a) ==
    LET size == Call("SCardListReaders", hctx, "size", a.list1, <<>>)
        fill == Call("SCardListReaders", hctx, "fill", a.list2,
                     IF a.list2 = SCARD_S_SUCCESS THEN a.readers ELSE <<>>)
        readers == fill.out
        conn == ConnectCall(hctx, readers[1], a)
        inner == TryFinally(MacosTransmit(conn.out, a), DisconnectCall(conn.out))
    IN  IF a.list1 # SCARD_S_SUCCESS
            THEN [calls |-> <<size>>,
                  ret |-> Raise("RuntimeError", "SCardListReaders(size) failed")]
        ELSE IF a.list2 # SCARD_S_SUCCESS
            THEN [calls |-> <<size, fill>>,
                  ret |-> Raise("RuntimeError", "SCardListReaders failed")]
        ELSE IF readers = <<>>
            THEN [calls |-> <<size, fill>>,
                  ret |-> Raise("RuntimeError", "No PC/SC readers found")]
        ELSE IF a.connect # SCARD_S_SUCCESS
            THEN [calls |-> <<size, fill, conn>>, ret |-> MacosConnectFailure(a.connect)]
        ELSE [calls |-> <<size, fill, conn>> \o inner.calls, ret |-> inner.ret]

\* _read_uid_macos.  h: the handle SCardEstablishContext writes on success.
ReadUidMacos(a, h) ==
    LET est == Call("SCardEstablishContext", NULL, 0, a.establish,
                    IF a.establish = SCARD_S_SUCCESS THEN h ELSE NULL)
        outer == TryFinally(MacosWithContext(est.out, a), ReleaseCall(est.out))
    IN  IF a.establish # SCARD_S_SUCCESS
            THEN [calls |-> <<est>>,
                  ret |-> Raise("RuntimeError", "SCardEstablishContext failed")]
        ELSE [calls |-> <<est>> \o outer.calls, ret |-> outer.ret]

\* read_uid_hex: the dispatch on sys.platform.
ReadUidHexRun(plat, a, h) ==
    IF plat = "win32" THEN ReadUidWindows(a, h)
    ELSE IF plat = "darwin" THEN ReadUidMacos(a, h)
    ELSE [calls |-> <<>>, ret |-> Raise("RuntimeError", "Windows and macOS only")]

ReadUidHex ==
    /\ \E a \in OneShotAnswers :
       \E r \in {ReadUidHexRun(platform, a, FreshContext)} :
             /\ svcContexts' = ApplyContexts(svcContexts, r.calls)
             /\ svcCards' = ApplyCards(svcCards, r.calls)
             /\ op' = "read_uid_hex"
             /\ calls' = r.calls
             /\ ret' = r.ret
    /\ UNCHANGED <<platform, nfcVars, serverVars>>

(***************************************************************************)
(* server.py: nfc_worker                                                   *)
(***************************************************************************)
\* A local that holds None or a value: <<>> for None, <<v>> for the value v.
Nothing == <<>>
Some(v) == <<v>>
\* The value a reader method returned, as such a local.
Returned(r) == IF r.kind = "hex" THEN Some(r.val) ELSE Nothing
\* if uid: / if category: (None and the empty string are falsy).
TruthyStr(o) == o # Nothing /\ Len(o[1]) > 0

\* What a call made by the worker can raise: an ordinary exception (a
\* subclass of Exception) or one that except Exception does not catch.
Faults == {"Exception", "BaseException"}
\* Faulty variant of Landing: every exception ends the loop.
LandingEndsLoop(exc) == "finally"

\* Where an exception raised inside the inner try block leads: to the handler
\* of lines 136-138, or past both handlers to the finally block.
Landing(exc) == IF exc = "Exception" THEN "handler" ELSE "finally"

\* mapping.get(uid) on what load_mapping returned: None, a category (which
\* may be the empty string), or an exception when the file does not hold a
\* JSON object.
Categories == {<<"c", "a", "t">>, <<>>}
LookupAnswers == {[kind |-> "value", val |-> Nothing]}
                 \cup {[kind |-> "value", val |-> Some(c)] : c \in Categories}
                 \cup {[kind |-> "raise", val |-> "Exception"]}
\* asyncio.run_coroutine_threadsafe: the coroutine is scheduled, or the call
\* raises (the loop is closed).
HandoffAnswers == {[kind |-> "ok", val |-> Nothing],
                   [kind |-> "raise", val |-> "Exception"]}

\* Faulty variant of NewUid: the UID is not compared with last_uid.
NewUidAlways(uid, last) == TruthyStr(uid)

\* if uid and uid != last_uid
NewUid(uid, last) == TruthyStr(uid) /\ uid # last
\* The lookup and the hand-off where the worker does not reach them.
NotLookedUp == [kind |-> "value", val |-> Nothing]
NotHandedOff == [kind |-> "ok", val |-> Nothing]

\* Faulty variant of AfterWait: the card is read whatever the status.
AfterWaitReadsAlways(status, last) ==
    IF status = "empty" THEN [pc |-> "read", last_uid |-> Nothing]
    ELSE [pc |-> "read", last_uid |-> last]

\* Lines 107-134 after wait_for_card returned status: where the worker goes
\* and the new last_uid.
AfterWait(status, last) ==
    IF status = "present" THEN [pc |-> "read", last_uid |-> last]
    ELSE IF status = "empty" THEN [pc |-> "wait", last_uid |-> Nothing]
    ELSE [pc |-> "wait", last_uid |-> last]

\* Lines 111-123 after read_uid returned uid: where the worker goes, the new
\* last_uid and the category handed to manager.broadcast, if any.
AfterRead(uid, last, lookup, handoff) ==
    IF ~NewUid(uid, last)
        THEN [pc |-> "wait", last_uid |-> last, scheduled |-> Nothing]
    ELSE IF lookup.kind = "raise"
        THEN [pc |-> Landing(lookup.val), last_uid |-> uid, scheduled |-> Nothing]
    ELSE IF ~TruthyStr(lookup.val)
        THEN [pc |-> "wait", last_uid |-> uid, scheduled |-> Nothing]
    ELSE IF handoff.kind = "raise"
        THEN [pc |-> Landing(handoff.val), last_uid |-> uid, scheduled |-> Nothing]
    ELSE [pc |-> "wait", last_uid |-> uid, scheduled |-> lookup.val]

\* History: the UID considered shown after a read returned uid and the step
\* scheduled a broadcast or not.
ShownAfterRead(uid, sched, old) ==
    IF ~TruthyStr(uid) THEN old
    ELSE IF sched # Nothing THEN uid
    ELSE IF uid # old THEN Nothing
    ELSE old

\* Lines 92-98: the reader is built; the worker returns if that fails.
WorkerStart ==
    /\ wpc = "start"
    /\ NFCReaderInitCall
    /\ wpc' = IF ret'.kind = "raise" THEN "done" ELSE "wait"
    /\ last_uid' = Nothing
    /\ UNCHANGED <<scheduled, shown, managerVars>>

\* Lines 105-134: wait_for_card returns and the worker acts on the status.
WorkerWait ==
    /\ wpc = "wait"
    /\ WaitForCardCall
    /\ \E r \in {AfterWait(IF ret'.kind = "str" THEN ret'.val ELSE None, last_uid)} :
          /\ wpc' = r.pc
          /\ last_uid' = r.last_uid
    /\ scheduled' = Nothing
    /\ shown' = IF ret' = ReturnStr("empty") THEN Nothing ELSE shown
    /\ UNCHANGED managerVars

\* Line 105: the call of wait_for_card raises.
WorkerWaitRaises ==
    /\ wpc = "wait"
    /\ \E e \in Faults :
          /\ op' = "wait_for_card"
          /\ calls' = <<>>
          /\ ret' = Raise(e, "raised in the call")
          /\ wpc' = Landing(e)
    /\ scheduled' = Nothing
    /\ UNCHANGED <<platform, nfcVars, svcContexts, svcCards, last_uid, shown, managerVars>>

\* Lines 109-123: read_uid returns and the worker acts on the UID.
WorkerRead ==
    /\ wpc = "read"
    /\ ReadUidCall
    /\ \E lookup \in IF NewUid(Returned(ret'), last_uid) THEN LookupAnswers
                      ELSE {NotLookedUp} :
       \E handoff \in IF lookup.kind = "value" /\ TruthyStr(lookup.val)
                          THEN HandoffAnswers
                       ELSE {NotHandedOff} :
       \E r \in {AfterRead(Returned(ret'), last_uid, lookup, handoff)} :
          /\ wpc' = r.pc
          /\ last_uid' = r.last_uid
          /\ scheduled' = r.scheduled
          /\ shown' = ShownAfterRead(Returned(ret'), r.scheduled, shown)
    /\ UNCHANGED managerVars

\* Line 109: the call of read_uid raises.
WorkerReadRaises ==
    /\ wpc = "read"
    /\ \E e \in Faults :
          /\ op' = "read_uid"
          /\ calls' = <<>>
          /\ ret' = Raise(e, "raised in the call")
          /\ wpc' = Landing(e)
    /\ scheduled' = Nothing
    /\ UNCHANGED <<platform, nfcVars, svcContexts, svcCards, last_uid, shown, managerVars>>

\* Lines 136-138: the iteration's exception is logged, the worker sleeps one
\* second and the loop goes on.
WorkerHandler ==
    /\ wpc = "handler"
    /\ wpc' = "wait"
    /\ scheduled' = Nothing
    /\ UNCHANGED <<platform, nfcVars, svcContexts, svcCards, op, calls, ret,
                   last_uid, shown, managerVars>>

\* Lines 142-144: the finally block of the loop.
WorkerFinally ==
    /\ wpc = "finally"
    /\ CloseCall
    /\ wpc' = "done"
    /\ scheduled' = Nothing
    /\ UNCHANGED <<last_uid, shown, managerVars>>

NextWorker ==
    \/ WorkerStart
    \/ WorkerWait
    \/ WorkerWaitRaises
    \/ WorkerRead
    \/ WorkerReadRaises
    \/ WorkerHandler
    \/ WorkerFinally

(***************************************************************************)
(* server.py: ConnectionManager and websocket_endpoint                     *)
(***************************************************************************)
\* The WebSocket objects of the clients.
Clients == {"ws1", "ws2", "ws3"}

\* The elements of a list.
Elements(list) == {list[i] : i \in 1..Len(list)}

\* list.remove(x): the list without the first occurrence of x.
RECURSIVE ListRemove(_, _)
ListRemove(list, x) ==
    IF list = <<>> THEN <<>>
    ELSE IF Head(list) = x THEN Tail(list)
    ELSE <<Head(list)>> \o ListRemove(Tail(list), x)

\* broadcast() is not running.  A running broadcast holds: pc, where the
\* coroutine is; taken, the number of items the list iterator of the for
\* loop has handed out; to, the connection being sent to; and as history
\* atStart, the connections in the list when the call began, attempted,
\* those send_text was called on, failed, those whose send_text raised, and
\* left, those disconnected since the call began.
NoBroadcast ==
    [pc |-> "idle", taken |-> 0, to |-> "none", atStart |-> {}, attempted |-> {},
     failed |-> {}, left |-> {}]

\* for connection in self.active_connections: the list iterator hands out
\* the item at its index in the list as it is now, or ends the loop; then
\* send_text is called on the item and the coroutine waits.
LoopHead(b, list) ==
    IF b.taken < Len(list)
        THEN [b EXCEPT !.pc = "sending", !.taken = b.taken + 1,
                       !.to = list[b.taken + 1],
                       !.attempted = b.attempted \cup {list[b.taken + 1]}]
    ELSE [b EXCEPT !.pc = "done", !.to = "none"]

\* websocket_endpoint begins: manager.connect(websocket).
Connect ==
    /\ \E ws \in Clients \ Elements(active_connections) :
          active_connections' = Append(active_connections, ws)
    /\ UNCHANGED <<bcast, platform, nfcVars, svcContexts, svcCards, op, calls, ret,
                   workerVars>>

\* websocket_endpoint ends: receive_text raised and manager.disconnect(websocket)
\* is called.
Disconnect ==
    /\ \E ws \in Elements(active_connections) :
          /\ active_connections' = ListRemove(active_connections, ws)
          /\ bcast' = IF bcast.pc = "sending"
                          THEN [bcast EXCEPT !.left = bcast.left \cup {ws}]
                      ELSE bcast
    /\ UNCHANGED <<platform, nfcVars, svcContexts, svcCards, op, calls, ret, workerVars>>

\* manager.broadcast(message) begins to run on the event loop.
BroadcastStart ==
    /\ bcast.pc \in {"idle", "done"}
    /\ bcast' = LoopHead([NoBroadcast EXCEPT !.atStart = Elements(active_connections)],
                         active_connections)
    /\ UNCHANGED <<active_connections, platform, nfcVars, svcContexts, svcCards, op,
                   calls, ret, workerVars>>

\* The send_text awaited returns, or raises and the exception is logged; the
\* for loop goes on.
BroadcastSent ==
    /\ bcast.pc = "sending"
    /\ \E raised \in BOOLEAN :
          bcast' = LoopHead([bcast EXCEPT !.failed = IF raised THEN bcast.failed \cup {bcast.to}
                                                     ELSE bcast.failed],
                            active_connections)
    /\ UNCHANGED <<active_connections, platform, nfcVars, svcContexts, svcCards, op,
                   calls, ret, workerVars>>

NextBroadcast ==
    \/ Connect
    \/ Disconnect
    \/ BroadcastStart
    \/ BroadcastSent

(***************************************************************************)
(* The specification.                                                      *)
(***************************************************************************)
Platforms == {"win32", "darwin", "linux"}

Init ==
    /\ platform \in Platforms
    /\ phase = "unborn"
    /\ hcontext = NULL
    /\ reader_name = None
    /\ dwCurrentState = 0
    /\ svcContexts = {}
    /\ svcCards = {}
    /\ op = "start"
    /\ calls = <<>>
    /\ ret = ReturnNone
    /\ lastPoll = [ret |-> None, status |-> "nopoll", afterForget |-> FALSE,
                   afterPresent |-> FALSE]
    /\ lastEvent = <<>>
    /\ closes = 0
    /\ wpc = "start"
    /\ last_uid = Nothing
    /\ scheduled = Nothing
    /\ shown = Nothing
    /\ active_connections = <<>>
    /\ bcast = NoBroadcast

NextReader ==
    \/ NFCReaderInit
    \/ WaitForCard
    \/ ReadUid
    \/ Close

NextOneShot == ReadUidHex

Next == NextReader \/ NextOneShot

\* One process using the one-shot read and an NFCReader, in any order.
Spec == Init /\ [][Next]_vars
\* The life of one NFCReader: __init__, then wait_for_card, read_uid, close.
SpecReader == Init /\ [][NextReader]_vars
\* Repeated one-shot reads on each platform.
SpecOneShot == Init /\ [][NextOneShot]_vars
\* The polling thread of the server.
SpecWorker == Init /\ [][NextWorker]_vars
\* The same with the thread being scheduled: read_uid returns or raises, the
\* sleep of the handler lasts one second and close() returns, so the worker
\* does not stay at line 109, in the handler or in the finally block.
SpecWorkerLive ==
    /\ SpecWorker
    /\ WF_vars(WorkerRead \/ WorkerReadRaises)
    /\ WF_vars(WorkerHandler)
    /\ WF_vars(WorkerFinally)
\* The event loop of the server: clients connect and disconnect, broadcasts
\* run one at a time.
SpecBroadcast == Init /\ [][NextBroadcast]_vars

(***************************************************************************)
(* Reading the record of the last operation.                               *)
(***************************************************************************)
LastCall == calls[Len(calls)]
CallsTo(fn) == {i \in 1..Len(calls) : calls[i].fn = fn}

\* The last operation was a wait_for_card that issued the status-change wait.
Polled ==
    op = "wait_for_card" /\ calls # <<>> /\ LastCall.fn = "SCardGetStatusChange"
\* The same, in the state after a step.
PolledNext ==
    op' = "wait_for_card" /\ calls' # <<>>
    /\ calls'[Len(calls')].fn = "SCardGetStatusChange"
\* The last wait_for_card enumerated the readers before anything else.
Enumerated ==
    op = "wait_for_card" /\ calls # <<>> /\ calls[1].fn = "SCardListReaders"

\* Bit b (a power of two) of mask m, by division.
HasBit(m, b) == (m \div b) % 2 = 1

UpperHexDigits == {"0", "1", "2", "3", "4", "5", "6", "7", "8", "9",
                   "A", "B", "C", "D", "E", "F"}

(***************************************************************************)
(* C1.  When the status-change wait succeeds, wait_for_card decides by     *)
(* strict priority on the event-state bits: "present" if PRESENT is set,   *)
(* whatever else is set; otherwise "empty" if EMPTY is set; otherwise, if  *)
(* UNAVAILABLE is set, it forgets the reader name and returns              *)
(* "unavailable"; otherwise it returns None.                               *)
(***************************************************************************)
C1_DecisionByPriority ==
    (Polled /\ LastCall.rv = SCARD_S_SUCCESS) =>
        LET e == LastCall.out
        IN  IF HasBit(e, SCARD_STATE_PRESENT) THEN ret = ReturnStr("present")
            ELSE IF HasBit(e, SCARD_STATE_EMPTY) THEN ret = ReturnStr("empty")
            ELSE IF HasBit(e, SCARD_STATE_UNAVAILABLE)
                THEN ret = ReturnStr("unavailable") /\ reader_name = None
            ELSE ret = ReturnNone

\* A successful wait whose event-state carries all three bits returned "present".
C1_Witness ==
    /\ Polled /\ LastCall.rv = SCARD_S_SUCCESS
    /\ LastCall.out = SCARD_STATE_PRESENT + SCARD_STATE_EMPTY + SCARD_STATE_UNAVAILABLE
    /\ ret = ReturnStr("present")

(***************************************************************************)
(* C2.  When the status-change wait ends with the timeout status           *)
(* 0x8010000A, read as an unsigned 32-bit value (so also in its signed     *)
(* form), wait_for_card returns None, the reader name stays known and      *)
(* current-state keeps the value it had when the wait was issued.          *)
(***************************************************************************)
C2_TimeoutLeavesWatchState ==
    (Polled /\ Mask32(LastCall.rv) = SCARD_E_TIMEOUT) =>
        /\ ret = ReturnNone
        /\ reader_name = LastCall.arg.szReader
        /\ dwCurrentState = LastCall.arg.dwCurrentState

(***************************************************************************)
(* C3.  After a wait_for_card that returned "unavailable" or hit a         *)
(* status-change error other than timeout, the next wait_for_card          *)
(* enumerates the readers first, and if it then waits, it waits on the     *)
(* first reader of that enumeration with current-state UNAWARE.            *)
(***************************************************************************)
C3_RediscoverAfterForget ==
    [][(Forgot(lastPoll) /\ op' = "wait_for_card") =>
          /\ calls' # <<>>
          /\ calls'[1].fn = "SCardListReaders"
          /\ \A i \in 1..Len(calls') :
               calls'[i].fn = "SCardGetStatusChange" =>
                  /\ i = 3
                  /\ calls'[2].fn = "SCardListReaders"
                  /\ calls'[i].arg.szReader = calls'[2].out[1]
                  /\ calls'[i].arg.dwCurrentState = SCARD_STATE_UNAWARE]_vars

\* A wait that followed a forgetting wait enumerated, found a reader, waited
\* on it with current-state UNAWARE and saw a card.
C3_Witness ==
    /\ Polled /\ Enumerated
    /\ lastPoll.afterForget
    /\ LastCall.arg.dwCurrentState = SCARD_STATE_UNAWARE
    /\ LastCall.rv = SCARD_S_SUCCESS
    /\ ret = ReturnStr("present")

(***************************************************************************)
(* C4.  read_uid never raises: it returns None when no reader is known,    *)
(* when connect or transmit fails, when the response is shorter than 2     *)
(* bytes and when the status word is not 90 00; it returns a Uid (the      *)
(* uppercase hex of the data bytes) only when connect and transmit         *)
(* succeed and the response ends with 90 00.                               *)
(***************************************************************************)
C4_ReadUidNeverRaises ==
    op = "read_uid" =>
        LET good == /\ CallsTo("SCardConnect") # {}
                    /\ \A i \in CallsTo("SCardConnect") : calls[i].rv = SCARD_S_SUCCESS
                    /\ CallsTo("SCardTransmit") # {}
                    /\ \A i \in CallsTo("SCardTransmit") :
                         /\ calls[i].rv = SCARD_S_SUCCESS
                         /\ Len(calls[i].out) >= 2
                         /\ calls[i].out[Len(calls[i].out) - 1] = 144
                         /\ calls[i].out[Len(calls[i].out)] = 0
        IN  /\ ret.kind \in {"None", "hex"}
            /\ ret.kind = "hex" <=> good
            /\ ret.kind = "None" => ret = ReturnNone
            /\ ret.kind = "hex" =>
                 \A i \in CallsTo("SCardTransmit") :
                    /\ Len(ret.val) = 2 * (Len(calls[i].out) - 2)
                    /\ \A k \in 1..Len(ret.val) : ret.val[k] \in UpperHexDigits

\* read_uid connected, transmitted, got one data byte and a status word other
\* than 90 00, and returned None.
C4_Witness ==
    /\ op = "read_uid"
    /\ ret = ReturnNone
    /\ \E i \in CallsTo("SCardTransmit") :
         /\ calls[i].rv = SCARD_S_SUCCESS
         /\ Len(calls[i].out) = 3
         /\ calls[i].out[3] # 0

(***************************************************************************)
(* C5.  Every card connection is disconnected on every exit path: in the   *)
(* one-shot readers and in read_uid each successful SCardConnect is        *)
(* followed, within the same operation, by exactly one SCardDisconnect of  *)
(* the handle it returned, no SCardDisconnect is issued when SCardConnect  *)
(* failed, and no connection is open after any operation.                  *)
(***************************************************************************)
C5_ConnectionsDisconnected ==
    /\ svcCards = {}
    /\ op \in {"read_uid", "read_uid_hex"} =>
         /\ \A i \in CallsTo("SCardConnect") :
              IF calls[i].rv = SCARD_S_SUCCESS
                  THEN Cardinality({j \in CallsTo("SCardDisconnect") :
                                      j > i /\ calls[j].h = calls[i].out}) = 1
              ELSE CallsTo("SCardDisconnect") = {}
         /\ \A j \in CallsTo("SCardDisconnect") :
              \E i \in CallsTo("SCardConnect") :
                 i < j /\ calls[i].rv = SCARD_S_SUCCESS /\ calls[j].h = calls[i].out
         /\ Cardinality(CallsTo("SCardDisconnect")) <= 1

\* A one-shot read that connected and then raised (transmit failure, short
\* response or bad status word) after disconnecting.
C5_Witness ==
    /\ op = "read_uid_hex"
    /\ ret.kind = "raise"
    /\ CallsTo("SCardDisconnect") # {}

(***************************************************************************)
(* C6.  In the one-shot read an established context is released exactly    *)
(* once, as the last service call, on every exit path; when                *)
(* SCardEstablishContext fails no release is issued.                       *)
(***************************************************************************)
C6_ContextReleasedOnce ==
    op = "read_uid_hex" =>
        /\ \A i \in CallsTo("SCardEstablishContext") :
             IF calls[i].rv = SCARD_S_SUCCESS
                 THEN /\ Cardinality({j \in CallsTo("SCardReleaseContext") :
                                        j > i /\ calls[j].h = calls[i].out}) = 1
                      /\ LastCall.fn = "SCardReleaseContext"
             ELSE CallsTo("SCardReleaseContext") = {}
        /\ Cardinality(CallsTo("SCardReleaseContext")) <= 1
        /\ CallsTo("SCardEstablishContext") = {} => CallsTo("SCardReleaseContext") = {}
        /\ svcContexts = {}

\* A one-shot read that found no card at connect released its context.
C6_Witness ==
    /\ op = "read_uid_hex"
    /\ ret.kind = "raise"
    /\ ret.val.exc = "NoCardDetectedError"
    /\ LastCall.fn = "SCardReleaseContext"

(***************************************************************************)
(* C7.  No reader or connection operation (SCardListReaders,               *)
(* SCardGetStatusChange, SCardConnect) is issued by wait_for_card,         *)
(* read_uid or close unless the instance holds an established, not yet     *)
(* released context; none is issued after close().                         *)
(***************************************************************************)
C7_OpsNeedContext ==
    op \in {"wait_for_card", "read_uid", "close"} =>
        \A i \in 1..Len(calls) :
            calls[i].fn \in {"SCardListReaders", "SCardGetStatusChange", "SCardConnect"}
                => Truthy(calls[i].h) /\ calls[i].h \in svcContexts

(***************************************************************************)
(* C8.  In the one-shot read, on every supported platform, a connect       *)
(* failure whose status, normalized to unsigned 32 bits, is 0x8010000C or  *)
(* 0x80100069 raises NoCardDetectedError, and every other non-zero         *)
(* connect status raises RuntimeError.                                     *)
(***************************************************************************)
C8_NoCardDistinguished ==
    op = "read_uid_hex" =>
        \A i \in CallsTo("SCardConnect") :
            calls[i].rv # SCARD_S_SUCCESS =>
                /\ ret.kind = "raise"
                /\ ret.val.exc =
                     IF Mask32(calls[i].rv) \in {SCARD_E_NO_SMARTCARD, SCARD_W_REMOVED_CARD}
                         THEN "NoCardDetectedError"
                     ELSE "RuntimeError"

(***************************************************************************)
(* C9.  close() is idempotent: the first close() releases the held         *)
(* context, once; every later close() issues no service call; no close()   *)
(* fails; after a close() the instance holds no context.                   *)
(***************************************************************************)
C9_CloseIdempotent ==
    /\ op = "close" =>
         /\ ret = ReturnNone
         /\ IF closes = 1
                THEN /\ Len(calls) = 1
                     /\ calls[1].fn = "SCardReleaseContext"
                     /\ calls[1].h \in CtxHandles
                     /\ calls[1].h \notin svcContexts
            ELSE calls = <<>>
    /\ closes >= 1 => ~Truthy(hcontext) /\ svcContexts = {}

\* A later close() that issued nothing.
C9_Witness ==
    /\ op = "close"
    /\ closes = 2
    /\ calls = <<>>
    /\ svcContexts = {}

(***************************************************************************)
(* C10.  Edge-triggered feedback.  As claimed: at every status-change wait *)
(* the current-state passed is UNAWARE if the reader was discovered in     *)
(* this call and otherwise equals the event-state returned by the most     *)
(* recent successful wait on that reader; after every successful wait      *)
(* current-state is the returned event-state.                              *)
(***************************************************************************)
C10_FeedbackAsClaimed ==
    [][PolledNext =>
          LET c == calls'[Len(calls')]
          IN  /\ IF calls'[1].fn = "SCardListReaders"
                     THEN c.arg.dwCurrentState = SCARD_STATE_UNAWARE
                 ELSE lastEvent # <<>> /\ c.arg.dwCurrentState = lastEvent[1]
              /\ c.rv = SCARD_S_SUCCESS => dwCurrentState' = c.out]_vars

(***************************************************************************)
(* C10, amended.  The current-state passed is UNAWARE if the reader was    *)
(* discovered in this call or if no wait has succeeded since it was        *)
(* discovered, and otherwise equals the event-state returned by the most   *)
(* recent successful wait since that discovery; after every successful     *)
(* wait current-state is the returned event-state.                         *)
(***************************************************************************)
C10_EdgeTriggeredFeedback ==
    [][PolledNext =>
          LET c == calls'[Len(calls')]
          IN  /\ IF calls'[1].fn = "SCardListReaders" \/ lastEvent = <<>>
                     THEN c.arg.dwCurrentState = SCARD_STATE_UNAWARE
                 ELSE c.arg.dwCurrentState = lastEvent[1]
              /\ c.rv = SCARD_S_SUCCESS => dwCurrentState' = c.out]_vars

\* A wait on a known reader passed the PRESENT state seen before, the
\* service answered EMPTY, and EMPTY is the new current-state.
C10_Witness ==
    /\ Polled /\ ~Enumerated
    /\ LastCall.arg.dwCurrentState = SCARD_STATE_PRESENT
    /\ LastCall.rv = SCARD_S_SUCCESS
    /\ LastCall.out = SCARD_STATE_EMPTY
    /\ dwCurrentState = SCARD_STATE_EMPTY
    /\ ret = ReturnStr("empty")

\* The calls of the operation a step performs.
CallsToNext(fn) == {i \in 1..Len(calls') : calls'[i].fn = fn}
\* The step is a wait_for_card whose status-change wait succeeded.
PolledOkNext == PolledNext /\ calls'[Len(calls')].rv = SCARD_S_SUCCESS

(***************************************************************************)
(* C11.  Card placed, then removed.  A wait whose successful event-state   *)
(* carries PRESENT returns "present"; a read_uid after it, to which the    *)
(* card answers data followed by 90 00, returns the Uid of the data; the   *)
(* next wait, whose successful event-state carries EMPTY and not PRESENT,  *)
(* returns "empty"; a read_uid after that, whose connect fails, returns    *)
(* None and does not raise.                                                *)
(***************************************************************************)
C11_PresentThenEmpty ==
    [][/\ (PolledOkNext /\ HasBit(calls'[Len(calls')].out, SCARD_STATE_PRESENT))
            => ret' = ReturnStr("present")
       /\ (lastPoll.ret = "present" /\ op' = "read_uid") =>
            \A i \in CallsToNext("SCardTransmit") :
               (/\ calls'[i].rv = SCARD_S_SUCCESS
                /\ Len(calls'[i].out) >= 2
                /\ Last2(calls'[i].out) = <<144, 0>>)
               => ret' = ReturnHex(Hex(DropLast2(calls'[i].out)))
       /\ (/\ lastPoll.ret = "present"
           /\ PolledOkNext
           /\ HasBit(calls'[Len(calls')].out, SCARD_STATE_EMPTY)
           /\ ~HasBit(calls'[Len(calls')].out, SCARD_STATE_PRESENT))
            => ret' = ReturnStr("empty")
       /\ (/\ lastPoll.ret = "empty"
           /\ op' = "read_uid"
           /\ \E i \in CallsToNext("SCardConnect") : calls'[i].rv # SCARD_S_SUCCESS)
            => ret' = ReturnNone /\ CallsToNext("SCardTransmit") = {}]_vars

\* The end of the sequence: the last two waits returned "present" and then
\* "empty", and the read_uid after them found no card at connect and
\* returned None.
C11_Witness ==
    /\ op = "read_uid"
    /\ lastPoll.ret = "empty"
    /\ lastPoll.afterPresent
    /\ lastEvent # <<>> /\ HasBit(lastEvent[1], SCARD_STATE_EMPTY)
    /\ \E i \in CallsTo("SCardConnect") : Mask32(calls[i].rv) = SCARD_E_NO_SMARTCARD
    /\ ret = ReturnNone

\* The digits of uppercase hexadecimal, by value.
UpperHexTable == <<"0", "1", "2", "3", "4", "5", "6", "7",
                   "8", "9", "A", "B", "C", "D", "E", "F">>
\* Digit k of the uppercase hex of the bytes d: the high half of a byte at
\* the odd places, the low half at the even places.
UpperHexDigit(d, k) ==
    IF k % 2 = 1 THEN UpperHexTable[(d[(k + 1) \div 2] \div 16) + 1]
    ELSE UpperHexTable[(d[k \div 2] % 16) + 1]

(***************************************************************************)
(* C12.  One-shot decode.  Whatever bytes the card answers, the one-shot   *)
(* read raises the short-response error when the response has 0 or 1       *)
(* bytes, raises the card-command error when it has at least 2 bytes and   *)
(* the last two are not 90 00, and otherwise returns the uppercase hex of  *)
(* all bytes but the last two: a string of 2 x (len - 2) digits, the empty *)
(* string for a response of exactly 90 00.                                 *)
(***************************************************************************)
C12_OneShotDecode ==
    op = "read_uid_hex" =>
        \A i \in CallsTo("SCardTransmit") :
            calls[i].rv = SCARD_S_SUCCESS =>
                LET resp == calls[i].out
                    n == Len(resp)
                IN  IF n < 2
                        THEN ret = Raise("RuntimeError", "Short response")
                    ELSE IF resp[n - 1] # 144 \/ resp[n] # 0
                        THEN ret = Raise("RuntimeError", "GET_UID failed")
                    ELSE /\ ret.kind = "hex"
                         /\ Len(ret.val) = 2 * (n - 2)
                         /\ \A k \in 1..Len(ret.val) :
                               ret.val[k] = UpperHexDigit(resp, k)
                         /\ n = 2 => ret.val = <<>>

\* The card answered AB 90 00 and the one-shot read returned "AB".
C12_Witness ==
    /\ op = "read_uid_hex"
    /\ \E i \in CallsTo("SCardTransmit") : calls[i].out = <<171, 144, 0>>
    /\ ret = ReturnHex(<<"A", "B">>)

(***************************************************************************)
(* C13.  No reader found.  A wait_for_card that starts with no known       *)
(* reader enumerates the readers first; when the enumeration gives none    *)
(* (an empty list, or a failing SCardListReaders) the call returns None,   *)
(* issues no status-change wait and leaves the reader unknown, so the      *)
(* wait_for_card after it enumerates again.                                *)
(***************************************************************************)
C13_NoReaderFound ==
    [][op' = "wait_for_card" =>
          /\ ~Truthy(reader_name) =>
               /\ calls' # <<>>
               /\ calls'[1].fn = "SCardListReaders"
               /\ calls'[1].h = hcontext
          /\ (/\ ~Truthy(reader_name)
              /\ \/ \E i \in CallsToNext("SCardListReaders") :
                       calls'[i].rv # SCARD_S_SUCCESS
                 \/ \E i \in CallsToNext("SCardListReaders") :
                       calls'[i].arg = "fill" /\ calls'[i].out = <<>>)
               => /\ ret' = ReturnNone
                  /\ CallsToNext("SCardGetStatusChange") = {}
                  /\ ~Truthy(reader_name')
                  /\ reader_name' = reader_name]_vars

\* A wait_for_card with no known reader listed the readers, got an empty
\* list, returned None without polling and left the reader unknown.
C13_Witness ==
    /\ op = "wait_for_card"
    /\ lastPoll.status = "nopoll"
    /\ Len(calls) = 2
    /\ calls[2].fn = "SCardListReaders" /\ calls[2].rv = SCARD_S_SUCCESS
    /\ calls[2].out = <<>>
    /\ ret = ReturnNone
    /\ reader_name = None

\* The place of a service function in the one-shot flow.
FlowRank(fn) ==
    CASE fn = "SCardEstablishContext" -> 1
      [] fn = "SCardListReaders" -> 2
      [] fn = "SCardConnect" -> 3
      [] fn = "SCardTransmit" -> 4
      [] fn = "SCardDisconnect" -> 5
      [] fn = "SCardReleaseContext" -> 6
      [] OTHER -> 0
\* The calls that clean up what was acquired.
IsCleanup(fn) == fn \in {"SCardDisconnect", "SCardReleaseContext"}

(***************************************************************************)
(* C14.  The one-shot read issues its service calls in the order           *)
(* establish, list readers, connect, transmit, disconnect, release.        *)
(* Connect goes to the first enumerated reader; connect and transmit are   *)
(* each issued at most once; disconnect precedes release; a call that      *)
(* fails is followed only by the cleanup of what was acquired before it    *)
(* (disconnect of the card connected, release of the context established). *)
(***************************************************************************)
C14_OneShotCallOrder ==
    (op = "read_uid_hex" /\ platform \in {"win32", "darwin"}) =>
        /\ calls # <<>> /\ calls[1].fn = "SCardEstablishContext"
        /\ \A i \in 1..Len(calls) : FlowRank(calls[i].fn) >= 1
        /\ \A i, j \in 1..Len(calls) :
              i < j => /\ FlowRank(calls[i].fn) <= FlowRank(calls[j].fn)
                       /\ calls[i].rv # SCARD_S_SUCCESS => IsCleanup(calls[j].fn)
        /\ \A fn \in {"SCardEstablishContext", "SCardConnect", "SCardTransmit",
                      "SCardDisconnect", "SCardReleaseContext"} :
              Cardinality(CallsTo(fn)) <= 1
        /\ Cardinality(CallsTo("SCardListReaders")) <= 2
        /\ \A i \in CallsTo("SCardConnect") :
              /\ calls[i - 1].fn = "SCardListReaders"
              /\ calls[i - 1].out # <<>>
              /\ calls[i].arg = calls[i - 1].out[1]
              /\ calls[i].h = calls[1].out
        /\ \A i \in CallsTo("SCardTransmit") :
              calls[i - 1].fn = "SCardConnect" /\ calls[i].h = calls[i - 1].out
        /\ \A i \in CallsTo("SCardDisconnect") :
              \E j \in CallsTo("SCardConnect") :
                 calls[j].rv = SCARD_S_SUCCESS /\ calls[i].h = calls[j].out
        /\ (\E j \in CallsTo("SCardConnect") : calls[j].rv = SCARD_S_SUCCESS)
              => /\ CallsTo("SCardTransmit") # {}
                 /\ CallsTo("SCardDisconnect") # {}
        /\ IF calls[1].rv = SCARD_S_SUCCESS
               THEN /\ Len(calls) >= 3
                    /\ LastCall.fn = "SCardReleaseContext"
                    /\ LastCall.h = calls[1].out
                    /\ calls[2].fn = "SCardListReaders"
           ELSE Len(calls) = 1

\* Two readers were enumerated, the first was connected, transmit failed,
\* and the call ended with disconnect and release.
C14_Witness ==
    /\ op = "read_uid_hex"
    /\ Len(calls) = 7
    /\ calls[3].out = <<"R2", "R1">>
    /\ calls[4].fn = "SCardConnect" /\ calls[4].arg = "R2"
    /\ calls[5].fn = "SCardTransmit" /\ calls[5].rv # SCARD_S_SUCCESS
    /\ calls[6].fn = "SCardDisconnect"
    /\ calls[7].fn = "SCardReleaseContext"
    /\ ret.kind = "raise"

(***************************************************************************)
(* C15.  The reader name is forgotten only by a wait_for_card that takes   *)
(* the "unavailable" branch or whose status-change wait ends with an error *)
(* other than timeout (the status read as an unsigned 32-bit value).  A    *)
(* wait_for_card that returns "present", "empty" or None on a successful   *)
(* wait, and every read_uid, leave the reader name unchanged.              *)
(***************************************************************************)
C15_ReaderForgottenOnlyBy ==
    [][/\ (Truthy(reader_name) /\ reader_name' # reader_name) =>
            /\ op' = "wait_for_card"
            /\ reader_name' = None
            /\ lastPoll'.ret = "unavailable" \/ lastPoll'.status = "error"
       /\ (/\ PolledOkNext
           /\ ret' \in {ReturnStr("present"), ReturnStr("empty"), ReturnNone})
            => reader_name' = calls'[Len(calls')].arg.szReader
       /\ op' = "read_uid" => reader_name' = reader_name]_vars

\* The outcomes of the one-shot decode (on Windows and on macOS) for a
\* response the card gave.
OneShotDecodes(hcard, resp) ==
    {WindowsTransmit(hcard, CardAnswer(SCARD_S_SUCCESS, SCARD_S_SUCCESS, resp)).ret,
     MacosTransmit(hcard, CardAnswer(SCARD_S_SUCCESS, SCARD_S_SUCCESS, resp)).ret}

(***************************************************************************)
(* C18.  read_uid and the one-shot read decode alike.  For every response  *)
(* the card gives to read_uid, read_uid returns the Uid u exactly when the *)
(* one-shot decode of the same response returns u, and returns None        *)
(* exactly when the one-shot decode fails, with the short-response or the  *)
(* status-word error.                                                      *)
(***************************************************************************)
C18_DecodeAgrees ==
    op = "read_uid" =>
        \A i \in CallsTo("SCardTransmit") :
            calls[i].rv = SCARD_S_SUCCESS =>
                \A one \in OneShotDecodes(calls[i].h, calls[i].out) :
                    /\ one.kind \in {"hex", "raise"}
                    /\ one.kind = "hex" <=> ret.kind = "hex"
                    /\ one.kind = "hex" => ret = one
                    /\ one.kind = "raise" <=> ret = ReturnNone
                    /\ one.kind = "raise" =>
                          one.val \in {[exc |-> "RuntimeError", msg |-> "Short response"],
                                       [exc |-> "RuntimeError", msg |-> "GET_UID failed"]}

\* The card answered 04 90 00 to read_uid, which returned "04", the value
\* the one-shot decode gives.
C18_Witness ==
    /\ op = "read_uid"
    /\ \E i \in CallsTo("SCardTransmit") :
          /\ calls[i].out = <<4, 144, 0>>
          /\ ReturnHex(<<"0", "4">>) \in OneShotDecodes(calls[i].h, calls[i].out)
    /\ ret = ReturnHex(<<"0", "4">>)

\* The worker is inside the while loop of nfc_worker.
InLoop == wpc \in {"wait", "read", "handler"}
\* The last call the worker made raised an exception of class exc.
CallRaised(exc) == ret.kind = "raise" /\ ret.val.exc = exc

(***************************************************************************)
(* C16.  A failing iteration never stops the polling worker.  The loop is  *)
(* left only when a call raises something that is not an ordinary          *)
(* exception; after anything else an iteration does (wait_for_card or      *)
(* read_uid returning None or raising, the mapping lookup or the hand-off  *)
(* to broadcast raising) the worker comes back to the wait_for_card call.  *)
(* Whenever the loop is left, reader.close() is called before the worker   *)
(* ends.                                                                   *)
(***************************************************************************)
C16_WorkerKeepsPolling ==
    /\ [][(InLoop /\ ~InLoop') =>
             /\ wpc' = "finally"
             /\ ret'.kind = "raise" /\ ret'.val.exc = "BaseException"]_vars
    /\ [][(wpc = "finally" /\ wpc' # "finally") =>
             op' = "close" /\ wpc' = "done" /\ closes' = 1]_vars
    /\ [](wpc = "done" => (phase = "failed" \/ (closes = 1 /\ ~Truthy(hcontext))))
    /\ (wpc \in {"read", "handler"}) ~> (wpc = "wait" \/ CallRaised("BaseException"))
    /\ (wpc = "finally") ~> (wpc = "done" /\ op = "close")

\* read_uid raised an ordinary exception, the handler ran, and the worker is
\* back at the wait_for_card call.
C16_Witness ==
    /\ wpc = "wait"
    /\ op = "read_uid"
    /\ CallRaised("Exception")

(***************************************************************************)
(* C17.  The worker reads only after "present".  Every read_uid call of    *)
(* the worker loop comes directly after a wait_for_card call that returned *)
(* "present": no other reader call lies between them, and no read_uid      *)
(* follows a read_uid without a wait_for_card in between.                  *)
(***************************************************************************)
C17_ReadOnlyAfterPresent ==
    [][/\ (op' = "read_uid" /\ op # "read_uid") =>
            /\ op = "wait_for_card"
            /\ ret = ReturnStr("present")
            /\ lastPoll.ret = "present"
       /\ (op' = "read_uid" /\ op = "read_uid") =>
            calls' = calls /\ ret' = ret]_vars

\* The worker called read_uid after a wait that returned "present", and the
\* card gave a UID.
C17_Witness ==
    /\ wpc = "wait"
    /\ op = "read_uid"
    /\ lastPoll.ret = "present"
    /\ ret = ReturnHex(<<"A", "B">>)

(***************************************************************************)
(* C19.  A UID is handed to broadcast at most once per presence.  A        *)
(* broadcast is scheduled only by a step in which read_uid returned a      *)
(* non-empty UID different from last_uid; last_uid is cleared only by a    *)
(* wait_for_card that returned "empty"; and the UID of a scheduled         *)
(* broadcast is never the UID broadcast before unless "empty" was seen or  *)
(* another UID was read in between, whatever the polls in between          *)
(* returned.                                                               *)
(***************************************************************************)
C19_OncePerPresence ==
    [][/\ scheduled' # Nothing =>
            /\ op' = "read_uid"
            /\ ret'.kind = "hex" /\ Len(ret'.val) > 0
            /\ Some(ret'.val) # last_uid
            /\ Some(ret'.val) # shown
            /\ last_uid' = Some(ret'.val)
       /\ (last_uid # Nothing /\ last_uid' = Nothing) =>
            op' = "wait_for_card" /\ ret' = ReturnStr("empty")]_vars

\* The reader was lost and found again while the card stayed in place: the
\* wait before the last one forgot the reader, the last one returned
\* "present", read_uid gave the UID already broadcast, and nothing was
\* scheduled.
C19_Witness ==
    /\ wpc = "wait"
    /\ op = "read_uid"
    /\ lastPoll.ret = "present" /\ lastPoll.afterForget
    /\ ret = ReturnHex(<<"A", "B">>)
    /\ last_uid = Some(<<"A", "B">>)
    /\ shown = Some(<<"A", "B">>)
    /\ scheduled = Nothing

(***************************************************************************)
(* C20.  broadcast attempts delivery to every client that is in            *)
(* active_connections when the broadcast starts and stays connected until  *)
(* it ends, also when other clients connect or disconnect while a send is  *)
(* awaited, and a failing send does not stop delivery to the clients after *)
(* it.                                                                     *)
(***************************************************************************)
C20_BroadcastReachesAll ==
    bcast.pc = "done" =>
        \A ws \in bcast.atStart \ bcast.left : ws \in bcast.attempted

====
